---- MODULE Spec2Model ----
(***************************************************************************)
(* The UniSave web client: the state held by the App component             *)
(* (frontend/src/App.tsx), its two asynchronous handlers handleUpload and  *)
(* handleAnalyze, the banner timer, and the two API client calls           *)
(* uploadDocument and analyzeDocument (frontend/src/services/api.ts).      *)
(*                                                                         *)
(* JavaScript runs each handler, and each continuation after an await, to  *)
(* completion: one action per handler entry, one per request resolution,   *)
(* one per timer callback.                                                 *)
(*                                                                         *)
(* A nullable value is a sequence: << >> is null, <<v>> is the value v.    *)
(* A file name and the question text are sequences of one-character        *)
(* strings, so that toLowerCase, endsWith and trim are computed.           *)
(***************************************************************************)
EXTENDS Integers, Sequences, FiniteSets, Bags, TLC

VARIABLES
    activeDocId,      \* App.tsx:9   number | null
    currentFileUrl,   \* App.tsx:10  string | null
    documentTitle,    \* App.tsx:11  string
    question,         \* App.tsx:14  string (sequence of characters)
    result,           \* App.tsx:15  AnalyzeResponse | null
    highlights,       \* App.tsx:16  Claim[]
    error,            \* App.tsx:17  string | null
    isUploading,      \* App.tsx:18
    isAnalyzing,      \* App.tsx:19
    uploadSuccess,    \* App.tsx:20
    uploadMessage,    \* App.tsx:21  string | null
    fileInputValue,   \* the value of the <input type="file"> behind fileInputRef
    pendingUploads,   \* bag of upload requests awaiting their response
    pendingAnalyzes,  \* bag of analyze requests awaiting their response
    timers,           \* number of scheduled, not yet fired, setTimeout callbacks
    lastEvent,        \* history: the handler entry or resolution that ran last
    lastUpload        \* history: the response of the latest successful upload

vars == <<activeDocId, currentFileUrl, documentTitle, question, result,
          highlights, error, isUploading, isAnalyzing, uploadSuccess,
          uploadMessage, fileInputValue, pendingUploads, pendingAnalyzes,
          timers, lastEvent, lastUpload>>

docState == <<activeDocId, currentFileUrl, documentTitle>>
analysisState == <<result, highlights, question>>

-----------------------------------------------------------------------------
(* Bounds *)

\* Most banner timers scheduled and not yet fired.
MaxTimers == 2
\* Most analyze requests in flight when handleAnalyze is called directly.
MaxPending == 2

-----------------------------------------------------------------------------
(* Values *)

Null == << >>
Some(v) == <<v>>

\* JavaScript's ! on a number | null: null and 0 are both falsy.
NumberIsFalsy(x) == x = Null \/ x[1] = 0

BACKEND_URL == "http://127.0.0.1:8000"

UpperCaseLetters == <<"A", "D", "F", "N", "P", "T", "X">>
LowerCaseLetters == <<"a", "d", "f", "n", "p", "t", "x">>

ToLowerCaseChar(c) ==
    IF \E i \in DOMAIN UpperCaseLetters : UpperCaseLetters[i] = c
    THEN LowerCaseLetters[CHOOSE i \in DOMAIN UpperCaseLetters : UpperCaseLetters[i] = c]
    ELSE c

\* String.prototype.toLowerCase
ToLowerCase(s) == [i \in DOMAIN s |-> ToLowerCaseChar(s[i])]

\* String.prototype.endsWith
EndsWith(s, suffix) ==
    /\ Len(suffix) <= Len(s)
    /\ SubSeq(s, Len(s) - Len(suffix) + 1, Len(s)) = suffix

WhiteSpace == {" ", "\t", "\n"}

\* String.prototype.trim: drops the white space at both ends.
RECURSIVE TrimStart(_)
TrimStart(s) ==
    IF s # << >> /\ Head(s) \in WhiteSpace THEN TrimStart(Tail(s)) ELSE s

RECURSIVE TrimEnd(_)
TrimEnd(s) ==
    IF s # << >> /\ s[Len(s)] \in WhiteSpace
    THEN TrimEnd(SubSeq(s, 1, Len(s) - 1))
    ELSE s

Trim(s) == TrimEnd(TrimStart(s))

\* JavaScript's ! on a string: only the empty string is falsy.
StringIsFalsy(s) == s = << >>

DotPdf == <<".", "p", "d", "f">>

-----------------------------------------------------------------------------
(* Inputs: what the user selects and types, what the backend answers *)

FileNames ==
    { <<"n", ".", "p", "d", "f">>,
      <<"A", ".", "P", "D", "F">>,
      <<"n", ".", "t", "x", "t">>,
      <<"p", "d", "f">>,
      <<"n", ".", "p", "d", "f", ".", "t">> }

\* event.target.files?.[0]: a File, or nothing when the dialog was cancelled.
FileSelections == {Null} \cup {Some([name |-> n]) : n \in FileNames}

\* e.target.value of the textarea: empty, white space only, text, and text
\* with white space around it.
Questions ==
    { << >>,
      <<" ">>,
      <<"\n", "\t">>,
      <<"q">>,
      <<" ", "q", "?", "\n">> }

\* UploadResponse bodies of the backend (api.ts:7-15).
UploadResponses ==
    { [id |-> 7, title |-> "Notes", file_url |-> "/media/notes.pdf",
       processing_status |-> "success", processing_message |-> "Processed 3 pages"],
      [id |-> 8, title |-> "Paper", file_url |-> "/media/paper.pdf",
       processing_status |-> "warning", processing_message |-> "No text found"],
      [id |-> 0, title |-> "Zero", file_url |-> "/media/zero.pdf",
       processing_status |-> "success", processing_message |-> ""] }

\* Claim lists and AnalyzeResponse bodies of the backend (api.ts:17-33).
ClaimA == [claim |-> "a", status |-> "VERIFIED", score |-> 92]
ClaimB == [claim |-> "b", status |-> "LIKELY", score |-> 60]
ClaimC == [claim |-> "c", status |-> "UNVERIFIED", score |-> 10]
\* The status is whatever string the JSON holds: here one outside the type.
ClaimD == [claim |-> "d", status |-> "verified", score |-> 50]

AnalyzeBodies ==
    { [answer |-> "X", claims |-> <<ClaimA>>, chunks_used |-> 3],
      [answer |-> "Y", claims |-> <<ClaimB, ClaimA>>, chunks_used |-> 1],
      [answer |-> "Z", claims |-> <<ClaimC, ClaimD>>, chunks_used |-> 2] }

\* Bodies of a non-success HTTP response: JSON with an error field, JSON with
\* an empty error field, JSON without one, and a body that is not JSON.
ErrorBodies ==
    { [parseable |-> TRUE, error |-> Some("Server says no")],
      [parseable |-> TRUE, error |-> Some("")],
      [parseable |-> TRUE, error |-> Null],
      [parseable |-> FALSE, error |-> Null] }

\* How a fetch can end: a success status, a non-success status, no response.
UploadOutcomes ==
    { [kind |-> "ok", response |-> Some(r), body |-> Null] : r \in UploadResponses }
    \cup { [kind |-> "http_error", response |-> Null, body |-> Some(b)] : b \in ErrorBodies }
    \cup { [kind |-> "network_error", response |-> Null, body |-> Null] }

AnalyzeOutcomes ==
    { [kind |-> "ok", response |-> Some(r), body |-> Null] : r \in AnalyzeBodies }
    \cup { [kind |-> "http_error", response |-> Null, body |-> Some(b)] : b \in ErrorBodies }
    \cup { [kind |-> "network_error", response |-> Null, body |-> Null] }

\* Messages of the errors the platform throws.
FetchTypeErrorMessage == "Failed to fetch"
JsonSyntaxErrorMessage == "Unexpected token < in JSON at position 0"

-----------------------------------------------------------------------------
(* API client: services/api.ts *)

\* await response.json() on a non-success response, then
\* throw new Error(error.error || fallback).  response.json() itself throws a
\* SyntaxError when the body is not JSON.
ThrownMessage(body, fallback) ==
    IF ~body.parseable THEN JsonSyntaxErrorMessage
    ELSE IF body.error = Null \/ body.error[1] = "" THEN fallback
    ELSE body.error[1]

\* uploadDocument: the value the promise resolves to, or the message of the
\* error it rejects with.
uploadDocument(outcome) ==
    IF outcome.kind = "ok"
    THEN [ok |-> TRUE, value |-> outcome.response, message |-> ""]
    ELSE IF outcome.kind = "http_error"
    THEN [ok |-> FALSE, value |-> Null,
          message |-> ThrownMessage(outcome.body[1], "Upload failed")]
    ELSE [ok |-> FALSE, value |-> Null, message |-> FetchTypeErrorMessage]

\* analyzeDocument: the request body is {doc_id, question}; the response is
\* tagged with the doc_id of the request it answers.
analyzeDocument(req, outcome) ==
    IF outcome.kind = "ok"
    THEN [ok |-> TRUE,
          value |-> Some([answer |-> outcome.response[1].answer,
                          claims |-> outcome.response[1].claims,
                          chunks_used |-> outcome.response[1].chunks_used,
                          doc_id |-> req.doc_id]),
          message |-> ""]
    ELSE IF outcome.kind = "http_error"
    THEN [ok |-> FALSE, value |-> Null,
          message |-> ThrownMessage(outcome.body[1], "Analysis failed")]
    ELSE [ok |-> FALSE, value |-> Null, message |-> FetchTypeErrorMessage]

-----------------------------------------------------------------------------
(* History *)

Event(op) ==
    [op |-> op, file |-> Null, upload |-> Null, analyze |-> Null, before |-> Null]

-----------------------------------------------------------------------------
(* Initial state: the useState initial values, App.tsx:9-23 *)

Init ==
    /\ activeDocId = Null
    /\ currentFileUrl = Null
    /\ documentTitle = ""
    /\ question = << >>
    /\ result = Null
    /\ highlights = << >>
    /\ error = Null
    /\ isUploading = FALSE
    /\ isAnalyzing = FALSE
    /\ uploadSuccess = FALSE
    /\ uploadMessage = Null
    /\ fileInputValue = << >>
    /\ pendingUploads = EmptyBag
    /\ pendingAnalyzes = EmptyBag
    /\ timers = 0
    /\ lastEvent = Event("init")
    /\ lastUpload = Null

-----------------------------------------------------------------------------
(* handleUpload, App.tsx:28-75 *)

\* The check of line 33 without toLowerCase.
IsPdfName_CaseSensitive(name) == EndsWith(name, DotPdf)

\* The file's name passes the check of line 33.
IsPdfName(name) == EndsWith(ToLowerCase(name), DotPdf)

\* Lines 33-36: the file is not a PDF.
UploadRejected ==
    /\ error' = Some("Please select a PDF file")
    /\ UNCHANGED <<isUploading, uploadSuccess, uploadMessage, pendingUploads>>

\* The request of line 44, with the document state at the time it is issued.
UploadRequest(file) == [file |-> file, before |-> docState]

\* Lines 38-44 without the resets of lines 40-41.
UploadStarted_KeepsBanner(file) ==
    /\ isUploading' = TRUE
    /\ error' = Null
    /\ pendingUploads' = pendingUploads (+) SetToBag({UploadRequest(file)})
    /\ UNCHANGED <<uploadSuccess, uploadMessage>>

\* Lines 38-44: the flags are set and the request is issued.
UploadStarted(file) ==
    /\ isUploading' = TRUE
    /\ error' = Null
    /\ uploadSuccess' = FALSE
    /\ uploadMessage' = Null
    /\ pendingUploads' = pendingUploads (+) SetToBag({UploadRequest(file)})

\* Lines 28-44 with the pending banner timers cleared when a request starts.
HandleUpload_CancelsTimers(selection) ==
    /\ lastEvent' = [Event("handleUpload") EXCEPT !.file = selection]
    /\ IF selection = Null
       THEN UNCHANGED <<error, isUploading, uploadSuccess, uploadMessage, pendingUploads,
                        timers>>
       ELSE IF ~IsPdfName(selection[1].name)
            THEN UploadRejected /\ UNCHANGED timers
            ELSE UploadStarted(selection[1]) /\ timers' = 0
    /\ UNCHANGED <<docState, analysisState, isAnalyzing, pendingAnalyzes, lastUpload>>

\* Lines 28-44: handleUpload up to its await.
HandleUpload(selection) ==
    /\ lastEvent' = [Event("handleUpload") EXCEPT !.file = selection]
    /\ IF selection = Null
       THEN UNCHANGED <<error, isUploading, uploadSuccess, uploadMessage, pendingUploads>>
       ELSE IF ~IsPdfName(selection[1].name)
            THEN UploadRejected
            ELSE UploadStarted(selection[1])
    /\ UNCHANGED <<docState, analysisState, isAnalyzing, pendingAnalyzes, timers,
                   lastUpload>>

\* Lines 46-64 without the setQuestion('') of line 54.
UploadSucceeded_KeepsQuestion(response) ==
    /\ activeDocId' = Some(response.id)
    /\ currentFileUrl' = Some(BACKEND_URL \o response.file_url)
    /\ documentTitle' = response.title
    /\ result' = Null
    /\ highlights' = << >>
    /\ uploadSuccess' = TRUE
    /\ uploadMessage' = Some(response.processing_message)
    /\ timers' = timers + 1
    /\ lastUpload' = Some(response)
    /\ UNCHANGED <<error, question>>

\* Lines 46-64 without the setHighlights([]) of line 53.
UploadSucceeded_KeepsHighlights(response) ==
    /\ activeDocId' = Some(response.id)
    /\ currentFileUrl' = Some(BACKEND_URL \o response.file_url)
    /\ documentTitle' = response.title
    /\ result' = Null
    /\ question' = << >>
    /\ uploadSuccess' = TRUE
    /\ uploadMessage' = Some(response.processing_message)
    /\ timers' = timers + 1
    /\ lastUpload' = Some(response)
    /\ UNCHANGED <<error, highlights>>

\* Lines 46-64: the response arrived.
UploadSucceeded(response) ==
    /\ activeDocId' = Some(response.id)
    /\ currentFileUrl' = Some(BACKEND_URL \o response.file_url)
    /\ documentTitle' = response.title
    /\ result' = Null
    /\ highlights' = << >>
    /\ question' = << >>
    /\ uploadSuccess' = TRUE
    /\ uploadMessage' = Some(response.processing_message)
    /\ timers' = timers + 1
    /\ lastUpload' = Some(response)
    /\ UNCHANGED error

\* Lines 66-67 with the analysis state cleared as on success.
UploadFailed_ClearsAnalysis(message) ==
    /\ error' = Some(message)
    /\ result' = Null
    /\ highlights' = << >>
    /\ question' = << >>
    /\ UNCHANGED <<docState, uploadSuccess, uploadMessage, timers, lastUpload>>

\* Lines 66-67 with the active document dropped.
UploadFailed_EvictsDocument(message) ==
    /\ error' = Some(message)
    /\ activeDocId' = Null
    /\ currentFileUrl' = Null
    /\ documentTitle' = ""
    /\ UNCHANGED <<analysisState, uploadSuccess, uploadMessage, timers, lastUpload>>

\* Lines 66-67: uploadDocument threw.
UploadFailed(message) ==
    /\ error' = Some(message)
    /\ UNCHANGED <<docState, analysisState, uploadSuccess, uploadMessage, timers,
                   lastUpload>>

\* Lines 68-74 without the setIsUploading(false) of line 69.
UploadFinally_KeepsUploading ==
    /\ fileInputValue' = << >>
    /\ UNCHANGED isUploading

\* Lines 68-74.
UploadFinally ==
    /\ isUploading' = FALSE
    /\ fileInputValue' = << >>

\* Lines 44-74: handleUpload from its await on, for one pending request.
UploadResolved(req, outcome) ==
    /\ BagIn(req, pendingUploads)
    /\ pendingUploads' = pendingUploads (-) SetToBag({req})
    /\ lastEvent' = [Event("uploadResolved") EXCEPT !.upload = Some(outcome),
                                                    !.before = Some(req.before)]
    /\ LET r == uploadDocument(outcome)
       IN IF r.ok THEN UploadSucceeded(r.value[1]) ELSE UploadFailed(r.message)
    /\ UploadFinally
    /\ UNCHANGED <<isAnalyzing, pendingAnalyzes>>

\* Lines 61-64 without the setUploadMessage(null) of line 63.
TimerFired_KeepsMessage ==
    /\ timers > 0
    /\ timers' = timers - 1
    /\ uploadSuccess' = FALSE
    /\ lastEvent' = Event("timer")
    /\ UNCHANGED <<docState, analysisState, error, isUploading, isAnalyzing,
                   uploadMessage, fileInputValue, pendingUploads, pendingAnalyzes,
                   lastUpload>>

\* Lines 61-64: the callback of setTimeout.
TimerFired ==
    /\ timers > 0
    /\ timers' = timers - 1
    /\ uploadSuccess' = FALSE
    /\ uploadMessage' = Null
    /\ lastEvent' = Event("timer")
    /\ UNCHANGED <<docState, analysisState, error, isUploading, isAnalyzing,
                   fileInputValue, pendingUploads, pendingAnalyzes, lastUpload>>

-----------------------------------------------------------------------------
(* handleAnalyze, App.tsx:80-105 *)

\* Lines 81-84.
AnalyzeNoDocument ==
    /\ error' = Some("Please upload a document first")
    /\ UNCHANGED <<isAnalyzing, result, highlights, pendingAnalyzes>>

\* Lines 86-89.
AnalyzeNoQuestion ==
    /\ error' = Some("Please enter a question")
    /\ UNCHANGED <<isAnalyzing, result, highlights, pendingAnalyzes>>

\* The request of line 97, api.ts:88-91.
AnalyzeRequest == [doc_id |-> activeDocId[1], question |-> question]

\* Lines 91-97 without the setResult(null) and setHighlights([]) of lines 93-94.
AnalyzeStarted_KeepsResult ==
    /\ isAnalyzing' = TRUE
    /\ error' = Null
    /\ pendingAnalyzes' = pendingAnalyzes (+) SetToBag({AnalyzeRequest})
    /\ UNCHANGED <<result, highlights>>

\* Lines 91-97 without the setError(null) of line 92.
AnalyzeStarted_KeepsError ==
    /\ isAnalyzing' = TRUE
    /\ result' = Null
    /\ highlights' = << >>
    /\ pendingAnalyzes' = pendingAnalyzes (+) SetToBag({AnalyzeRequest})
    /\ UNCHANGED error

\* Lines 91-97.
AnalyzeStarted ==
    /\ isAnalyzing' = TRUE
    /\ error' = Null
    /\ result' = Null
    /\ highlights' = << >>
    /\ pendingAnalyzes' = pendingAnalyzes (+) SetToBag({AnalyzeRequest})

\* Lines 80-97 with the two checks in the other order.
HandleAnalyze_QuestionFirst ==
    /\ lastEvent' = Event("handleAnalyze")
    /\ IF StringIsFalsy(Trim(question))
       THEN AnalyzeNoQuestion
       ELSE IF NumberIsFalsy(activeDocId)
            THEN AnalyzeNoDocument
            ELSE AnalyzeStarted
    /\ UNCHANGED <<docState, question, isUploading, uploadSuccess, uploadMessage,
                   fileInputValue, pendingUploads, timers, lastUpload>>

\* Lines 80-97: handleAnalyze up to its await.
HandleAnalyze ==
    /\ lastEvent' = Event("handleAnalyze")
    /\ IF NumberIsFalsy(activeDocId)
       THEN AnalyzeNoDocument
       ELSE IF StringIsFalsy(Trim(question))
            THEN AnalyzeNoQuestion
            ELSE AnalyzeStarted
    /\ UNCHANGED <<docState, question, isUploading, uploadSuccess, uploadMessage,
                   fileInputValue, pendingUploads, timers, lastUpload>>

\* Lines 98-99.
AnalyzeSucceeded(response) ==
    /\ result' = Some(response)
    /\ highlights' = response.claims
    /\ UNCHANGED error

\* Lines 100-101.
AnalyzeFailed(message) ==
    /\ error' = Some(message)
    /\ UNCHANGED <<result, highlights>>

\* Lines 97-104: handleAnalyze from its await on, for one pending request.
AnalyzeResolved(req, outcome) ==
    /\ BagIn(req, pendingAnalyzes)
    /\ pendingAnalyzes' = pendingAnalyzes (-) SetToBag({req})
    /\ lastEvent' = [Event("analyzeResolved") EXCEPT !.analyze = Some(outcome)]
    /\ LET r == analyzeDocument(req, outcome)
       IN IF r.ok THEN AnalyzeSucceeded(r.value[1]) ELSE AnalyzeFailed(r.message)
    /\ isAnalyzing' = FALSE
    /\ UNCHANGED <<docState, question, isUploading, uploadSuccess, uploadMessage,
                   fileInputValue, pendingUploads, timers, lastUpload>>

\* Line 226: the textarea's onChange.
SetQuestion(text) ==
    /\ question' = text
    /\ lastEvent' = Event("setQuestion")
    /\ UNCHANGED <<docState, result, highlights, error, isUploading, isAnalyzing,
                   uploadSuccess, uploadMessage, fileInputValue, pendingUploads,
                   pendingAnalyzes, timers, lastUpload>>

-----------------------------------------------------------------------------
(* Rendering, App.tsx:110-129, 193-202 and the citation list *)

\* Lines 110-117.
getStatusColor(status) ==
    CASE status = "VERIFIED" -> "bg-green-100 text-green-800 border-green-300"
      [] status = "LIKELY" -> "bg-yellow-100 text-yellow-800 border-yellow-300"
      [] status = "UNVERIFIED" -> "bg-red-100 text-red-800 border-red-300"
      [] OTHER -> "bg-gray-100 text-gray-800 border-gray-300"

\* Lines 122-129 with LIKELY left to the default.
getStatusIcon_MissingLikely(status) ==
    CASE status = "VERIFIED" -> "U+2713"
      [] status = "UNVERIFIED" -> "U+2717"
      [] OTHER -> "?"

\* Lines 122-129.  An icon is written as its code point: U+2713 is the check
\* mark, U+26A0 the warning sign, U+2717 the ballot x.
getStatusIcon(status) ==
    CASE status = "VERIFIED" -> "U+2713"
      [] status = "LIKELY" -> "U+26A0"
      [] status = "UNVERIFIED" -> "U+2717"
      [] OTHER -> "?"

\* The citation cards: one per highlight, drawn when result is set and
\* highlights is not empty.
Citations ==
    IF result # Null /\ Len(highlights) > 0
    THEN [i \in DOMAIN highlights |->
            [status |-> highlights[i].status,
             color |-> getStatusColor(highlights[i].status),
             icon |-> getStatusIcon(highlights[i].status)]]
    ELSE << >>

\* Lines 193-202: the upload message box and its two stylings.
UploadMessageBox ==
    IF uploadMessage = Null \/ uploadMessage[1] = "" THEN "none"
    ELSE IF uploadSuccess THEN "green"
    ELSE "yellow"

-----------------------------------------------------------------------------
(* The page: the controls that call the handlers, App.tsx:183-237 *)

\* The browser puts the selection into the input before the change event.
InputValueOf(selection) == IF selection = Null THEN << >> ELSE selection[1].name

\* Room for the timer that a new upload schedules when it succeeds.
TimerRoom == timers + BagCardinality(pendingUploads) < MaxTimers

\* Lines 183-190 without the disabled attribute.
SelectFile_NeverDisabled(selection) ==
    /\ (selection # Null /\ IsPdfName(selection[1].name)) => TimerRoom
    /\ fileInputValue' = InputValueOf(selection)
    /\ HandleUpload(selection)

\* Lines 183-190: the file input, disabled while isUploading.  A selection
\* that starts a request waits for room for its timer.
SelectFile(selection) ==
    /\ ~isUploading
    /\ (selection # Null /\ IsPdfName(selection[1].name)) => TimerRoom
    /\ fileInputValue' = InputValueOf(selection)
    /\ HandleUpload(selection)

\* Lines 224-233: the textarea, disabled while there is no active document.
TypeQuestion(text) ==
    /\ ~NumberIsFalsy(activeDocId)
    /\ SetQuestion(text)

\* Lines 235-237: the Analyze button and its disabled attribute.
ClickAnalyze ==
    /\ ~(isAnalyzing \/ NumberIsFalsy(activeDocId) \/ StringIsFalsy(Trim(question)))
    /\ HandleAnalyze

UploadResponds == \E req \in BagToSet(pendingUploads), outcome \in UploadOutcomes :
                      UploadResolved(req, outcome)

AnalyzeResponds == \E req \in BagToSet(pendingAnalyzes), outcome \in AnalyzeOutcomes :
                       AnalyzeResolved(req, outcome)

Next ==
    \/ \E selection \in FileSelections : SelectFile(selection)
    \/ UploadResponds
    \/ TimerFired
    \/ \E text \in Questions : TypeQuestion(text)
    \/ ClickAnalyze
    \/ AnalyzeResponds

Spec == Init /\ [][Next]_vars

\* The page when the browser does its part: every fetch settles (with a
\* response or a network error) and every setTimeout callback is run.
SpecFair ==
    /\ Spec
    /\ WF_vars(UploadResponds)
    /\ WF_vars(AnalyzeResponds)
    /\ WF_vars(TimerFired)

-----------------------------------------------------------------------------
(***************************************************************************)
(* handleAnalyze and the textarea's setter called directly, whatever the   *)
(* disabled attributes of the button and of the textarea say               *)
(***************************************************************************)

CallHandleAnalyze ==
    /\ BagCardinality(pendingAnalyzes) < MaxPending
    /\ HandleAnalyze

NextHandlers ==
    \/ \E selection \in FileSelections : SelectFile(selection)
    \/ UploadResponds
    \/ TimerFired
    \/ \E text \in Questions : SetQuestion(text)
    \/ CallHandleAnalyze
    \/ AnalyzeResponds

SpecHandlers == Init /\ [][NextHandlers]_vars

-----------------------------------------------------------------------------
(* Properties *)

\* What the properties say of the inputs, stated without the model's helpers.
NameEndsInDotPdf(name) ==
    /\ Len(name) >= 4
    /\ name[Len(name) - 3] = "."
    /\ name[Len(name) - 2] \in {"p", "P"}
    /\ name[Len(name) - 1] \in {"d", "D"}
    /\ name[Len(name)] \in {"f", "F"}

IsBlank(text) == \A i \in DOMAIN text : text[i] \in {" ", "\t", "\n"}

FileWasSelected(e) == e.op = "handleUpload" /\ e.file # Null
UploadRejectedLocally(e) == FileWasSelected(e) /\ ~NameEndsInDotPdf(e.file[1].name)
UploadRequestSucceeded(e) == e.op = "uploadResolved" /\ e.upload[1].kind = "ok"
UploadRequestFailed(e) == e.op = "uploadResolved" /\ e.upload[1].kind # "ok"
AnalyzeRequestSucceeded(e) == e.op = "analyzeResolved" /\ e.analyze[1].kind = "ok"
AnalyzeRequestFailed(e) == e.op = "analyzeResolved" /\ e.analyze[1].kind # "ok"

\* C1: whenever a result is present, it answers an analyze request whose
\* doc_id is the current active document id.
C1_ResultAnswersActiveDocument ==
    result # Null => activeDocId # Null /\ result[1].doc_id = activeDocId[1]

\* C2: selecting a file whose lower-cased name does not end in ".pdf" sets
\* error to "Please select a PDF file", issues no upload request and leaves
\* isUploading alone; selecting one whose lower-cased name ends in ".pdf"
\* issues one upload request for that file.
C2_OnlyPdfNamesAreUploaded ==
    [][FileWasSelected(lastEvent') =>
         IF NameEndsInDotPdf(lastEvent'.file[1].name)
         THEN /\ BagCardinality(pendingUploads') = BagCardinality(pendingUploads) + 1
              /\ \E req \in BagToSet(pendingUploads') :
                    /\ req.file = lastEvent'.file[1]
                    /\ CopiesIn(req, pendingUploads') = CopiesIn(req, pendingUploads) + 1
         ELSE /\ error' = Some("Please select a PDF file")
              /\ pendingUploads' = pendingUploads
              /\ isUploading' = isUploading]_vars

\* C2 witness: an upper-case A.PDF was accepted and its request is pending.
C2_Witness ==
    /\ FileWasSelected(lastEvent)
    /\ lastEvent.file[1].name = <<"A", ".", "P", "D", "F">>
    /\ isUploading
    /\ \E req \in BagToSet(pendingUploads) : req.file = lastEvent.file[1]

\* C3: in the state an upload's success leaves, activeDocId, documentTitle and
\* currentFileUrl come from the response (the URL behind
\* "http://127.0.0.1:8000"), result is null, highlights is empty and question
\* is the empty string.
C3_UploadSuccessSetsDocumentAndClearsAnalysis ==
    UploadRequestSucceeded(lastEvent) =>
        LET response == lastEvent.upload[1].response[1]
        IN /\ activeDocId = Some(response.id)
           /\ documentTitle = response.title
           /\ currentFileUrl = Some("http://127.0.0.1:8000" \o response.file_url)
           /\ result = Null
           /\ highlights = << >>
           /\ question = << >>

\* C3 witness: notes.pdf uploaded as id 7 while an analysis of an earlier
\* document was still pending.
C3_Witness ==
    /\ UploadRequestSucceeded(lastEvent)
    /\ activeDocId = Some(7)
    /\ documentTitle = "Notes"
    /\ currentFileUrl = Some("http://127.0.0.1:8000/media/notes.pdf")
    /\ pendingAnalyzes # EmptyBag

\* C4: a failed upload attempt leaves the document and the analysis state
\* alone: the local rejection and the failure of the request change none of
\* activeDocId, currentFileUrl, documentTitle, result, highlights and question,
\* and the document is the one that was active when the request was issued.
C4_FailedUploadLeavesDocumentAndAnalysis ==
    [][/\ UploadRejectedLocally(lastEvent') =>
            UNCHANGED <<activeDocId, currentFileUrl, documentTitle,
                        result, highlights, question>>
       /\ UploadRequestFailed(lastEvent') =>
            /\ UNCHANGED <<activeDocId, currentFileUrl, documentTitle,
                           result, highlights, question>>
            /\ <<activeDocId', currentFileUrl', documentTitle'>> = lastEvent'.before[1]]_vars

\* C4 witness: a request failed while a document was active and its analysis
\* was on show.
C4_Witness ==
    /\ UploadRequestFailed(lastEvent)
    /\ activeDocId = Some(7)
    /\ result # Null
    /\ question # << >>

\* C5: when an upload attempt that selected a file is over, by local rejection
\* or by the request's success or failure, the file input's value is empty.
C5_FileInputResetAfterEveryAttempt ==
    (UploadRejectedLocally(lastEvent) \/ lastEvent.op = "uploadResolved")
        => fileInputValue = << >>

\* C6: a call of handleAnalyze with a non-blank question, after an upload
\* succeeded, issues exactly one analyze request, and its doc_id is the id of
\* the latest successful upload's response.
C6_UploadedIdBecomesDocId ==
    [][(lastEvent'.op = "handleAnalyze" /\ lastUpload # Null /\ ~IsBlank(question)) =>
         \E req \in BagToSet(pendingAnalyzes') :
            /\ req.doc_id = lastUpload[1].id
            /\ pendingAnalyzes' = pendingAnalyzes (+) SetToBag({req})]_vars

\* C7: a call of handleAnalyze while there is no active document sets error
\* to "Please upload a document first", whatever the question, issues no
\* request and leaves isAnalyzing, result and highlights alone.
C7_AnalyzeWithoutDocumentIsRejected ==
    [][(lastEvent'.op = "handleAnalyze" /\ activeDocId = Null) =>
         /\ error' = Some("Please upload a document first")
         /\ UNCHANGED <<pendingAnalyzes, isAnalyzing, result, highlights>>]_vars

\* C7 witness: handleAnalyze ran with no document and a blank question.
C7_Witness ==
    /\ lastEvent.op = "handleAnalyze"
    /\ activeDocId = Null
    /\ IsBlank(question)
    /\ error = Some("Please upload a document first")
    /\ pendingAnalyzes = EmptyBag

\* C8: a call of handleAnalyze with an active document and an empty or
\* white-space-only question sets error to "Please enter a question", issues
\* no request and leaves isAnalyzing, result and highlights alone.
C8_AnalyzeWithBlankQuestionIsRejected ==
    [][(lastEvent'.op = "handleAnalyze" /\ activeDocId # Null /\ IsBlank(question)) =>
         /\ error' = Some("Please enter a question")
         /\ UNCHANGED <<pendingAnalyzes, isAnalyzing, result, highlights>>]_vars

\* C9: in the state an analyze request's failure leaves, error is a non-empty
\* message, isAnalyzing is false, result is null and highlights is empty.
C9_FailedAnalysisLeavesNoResult ==
    AnalyzeRequestFailed(lastEvent) =>
        /\ error # Null
        /\ error[1] # ""
        /\ ~isAnalyzing
        /\ result = Null
        /\ highlights = << >>

\* C9 witness: an analysis of document 8 failed with the server's message.
C9_Witness ==
    /\ AnalyzeRequestFailed(lastEvent)
    /\ lastEvent.analyze[1].kind = "http_error"
    /\ error = Some("Server says no")
    /\ activeDocId = Some(8)
    /\ result = Null

\* The message C10 expects for a non-success response.
ServerMessageOr(body, fallback) ==
    IF body.error # Null /\ body.error[1] # "" THEN body.error[1] ELSE fallback

\* C10: after a non-success HTTP response, error is the body's error value
\* when there is one and otherwise 'Upload failed' (upload) or
\* 'Analysis failed' (analyze), whatever the body looks like.
C10_ErrorIsServerMessageOrFallback ==
    /\ (lastEvent.op = "uploadResolved" /\ lastEvent.upload[1].kind = "http_error") =>
          error = Some(ServerMessageOr(lastEvent.upload[1].body[1], "Upload failed"))
    /\ (lastEvent.op = "analyzeResolved" /\ lastEvent.analyze[1].kind = "http_error") =>
          error = Some(ServerMessageOr(lastEvent.analyze[1].body[1], "Analysis failed"))

\* A PDF the user can select for a retry.
SomePdf == Some([name |-> <<"n", ".", "p", "d", "f">>])

\* C11: when an upload (analyze) request completes, by success or failure,
\* isUploading (isAnalyzing) is false; hence, every request settling, a flag
\* that is true becomes false again, and after a failure the same action is
\* available again and, taken, issues a new request.
C11_FlagsClearAndActionsCanBeRetried ==
    /\ [](lastEvent.op = "uploadResolved" => ~isUploading)
    /\ [](lastEvent.op = "analyzeResolved" => ~isAnalyzing)
    /\ (isUploading ~> ~isUploading)
    /\ (isAnalyzing ~> ~isAnalyzing)
    /\ [](UploadRequestFailed(lastEvent) => ENABLED SelectFile(SomePdf))
    /\ []((AnalyzeRequestFailed(lastEvent) /\ activeDocId \notin {Null, Some(0)}
            /\ ~IsBlank(question))
          => ENABLED ClickAnalyze)
    /\ [][(UploadRequestFailed(lastEvent) /\ lastEvent'.op = "handleUpload"
            /\ lastEvent'.file = SomePdf)
           => isUploading' /\ BagCardinality(pendingUploads') = 1]_vars
    /\ [][(AnalyzeRequestFailed(lastEvent) /\ lastEvent'.op = "handleAnalyze")
           => isAnalyzing' /\ BagCardinality(pendingAnalyzes') = 1]_vars

\* C11 witness: an analyze request failed and the Analyze button is enabled
\* again for the same document and question.
C11_Witness ==
    /\ AnalyzeRequestFailed(lastEvent)
    /\ ~isAnalyzing
    /\ error # Null
    /\ ENABLED ClickAnalyze

\* C12: every status has a presentation: VERIFIED is green with the check
\* mark, LIKELY yellow with the warning sign, UNVERIFIED red with the ballot x,
\* anything else gray with '?'; colour and icon of a citation are always of
\* the same row.
C12_StatusPresentationIsTotal ==
    \A i \in DOMAIN Citations :
        LET c == Citations[i]
            row == <<c.color, c.icon>>
        IN /\ c.status = "VERIFIED" =>
                row = <<"bg-green-100 text-green-800 border-green-300", "U+2713">>
           /\ c.status = "LIKELY" =>
                row = <<"bg-yellow-100 text-yellow-800 border-yellow-300", "U+26A0">>
           /\ c.status = "UNVERIFIED" =>
                row = <<"bg-red-100 text-red-800 border-red-300", "U+2717">>
           /\ c.status \notin {"VERIFIED", "LIKELY", "UNVERIFIED"} =>
                row = <<"bg-gray-100 text-gray-800 border-gray-300", "?">>

\* C12 witness: a result on show with an UNVERIFIED citation and one of a
\* status outside the three, drawn gray with '?'.
C12_Witness ==
    /\ Len(Citations) = 2
    /\ Citations[1].status = "UNVERIFIED"
    /\ Citations[2].status = "verified"
    /\ Citations[2].icon = "?"
    /\ Citations[2].color = "bg-gray-100 text-gray-800 border-gray-300"

\* C13: on the page at most one upload request and at most one analyze
\* request is pending, and isUploading (isAnalyzing) is true exactly while an
\* upload (analyze) request is pending.
C13_OneRequestOfEachKind ==
    /\ BagCardinality(pendingUploads) <= 1
    /\ BagCardinality(pendingAnalyzes) <= 1
    /\ isUploading <=> BagCardinality(pendingUploads) > 0
    /\ isAnalyzing <=> BagCardinality(pendingAnalyzes) > 0

\* C13 witness: an upload and an analyze request are pending together.
C13_Witness ==
    /\ isUploading
    /\ isAnalyzing
    /\ BagCardinality(pendingUploads) = 1
    /\ BagCardinality(pendingAnalyzes) = 1

\* C14: a scheduled banner timer goes away only by firing, one at a time,
\* whatever upload starts or succeeds meanwhile, and when it fires it sets
\* uploadSuccess to false and uploadMessage to null, also while the timer of
\* a later upload is still pending.
C14_BannerTimerIsNeverCancelled ==
    [][/\ timers' < timers => (lastEvent'.op = "timer" /\ timers' = timers - 1)
       /\ (lastEvent'.op = "timer" /\ timers' # timers) =>
             (uploadSuccess' = FALSE /\ uploadMessage' = Null)
       /\ (UploadRequestSucceeded(lastEvent') /\ pendingUploads' # pendingUploads) =>
             timers' = timers + 1]_vars

\* C14 witness: the first upload's timer has fired and hidden the banner
\* while the timer of the second successful upload is still pending.
C14_Witness ==
    /\ lastEvent.op = "timer"
    /\ timers = 1
    /\ ~isUploading
    /\ uploadSuccess = FALSE
    /\ uploadMessage = Null
    /\ error = Null
    /\ lastUpload = Some(CHOOSE r \in UploadResponses : r.id = 8)

\* C15: a successful upload leaves uploadSuccess true and is followed, the
\* timer firing, by a state with uploadSuccess false and uploadMessage null;
\* while uploadSuccess is true the file input, the textarea and the Analyze
\* button are as enabled as without the banner.
C15_BannerIsDismissedAndBlocksNothing ==
    /\ [](UploadRequestSucceeded(lastEvent) => uploadSuccess)
    /\ (UploadRequestSucceeded(lastEvent) ~> (~uploadSuccess /\ uploadMessage = Null))
    /\ []((uploadSuccess /\ TimerRoom) => ENABLED SelectFile(SomePdf))
    /\ []((uploadSuccess /\ activeDocId \notin {Null, Some(0)}) =>
            ENABLED TypeQuestion(<<"q">>))
    /\ []((uploadSuccess /\ ~isAnalyzing /\ activeDocId \notin {Null, Some(0)}
            /\ ~IsBlank(question)) => ENABLED ClickAnalyze)

\* C15 witness: the Analyze button was clicked, and its request issued, while
\* the banner of the upload was on show.
C15_Witness ==
    /\ lastEvent.op = "handleAnalyze"
    /\ isAnalyzing
    /\ uploadSuccess
    /\ uploadMessage = Some("Processed 3 pages")
    /\ timers = 1

\* C16: when handleAnalyze is entered with an active document that passes
\* its first check and a non-blank question, it issues the request and leaves
\* isAnalyzing true, error null, result null and highlights empty.
C16_AnalyzingStartsClean ==
    [][(lastEvent'.op = "handleAnalyze" /\ activeDocId \notin {Null, Some(0)}
        /\ ~IsBlank(question)) =>
         /\ BagCardinality(pendingAnalyzes') = BagCardinality(pendingAnalyzes) + 1
         /\ isAnalyzing' = TRUE
         /\ error' = Null
         /\ result' = Null
         /\ highlights' = << >>]_vars

\* C16 witness: a request was just issued for document 7.
C16_Witness ==
    /\ lastEvent.op = "handleAnalyze"
    /\ \E req \in BagToSet(pendingAnalyzes) : req.doc_id = 7
    /\ isAnalyzing
    /\ error = Null
    /\ result = Null
    /\ highlights = << >>

\* C17: result and highlights are in step: highlights is empty when result
\* is null, and is the claims list of result when result is set.
C17_HighlightsAreTheResultsClaims ==
    IF result = Null THEN highlights = << >> ELSE highlights = result[1].claims

\* C17 witness: a result with two claims on show.
C17_Witness ==
    /\ result # Null
    /\ Len(highlights) = 2
    /\ highlights = result[1].claims

\* C18: activeDocId, currentFileUrl and documentTitle come from the latest
\* successful upload's response, and are null, null and '' while no upload
\* has succeeded; once activeDocId is set, no step makes it null again.
C18_DocumentIsTheLatestUpload ==
    /\ [](IF lastUpload = Null
          THEN activeDocId = Null /\ currentFileUrl = Null /\ documentTitle = ""
          ELSE /\ activeDocId = Some(lastUpload[1].id)
               /\ currentFileUrl = Some("http://127.0.0.1:8000" \o lastUpload[1].file_url)
               /\ documentTitle = lastUpload[1].title)
    /\ [][activeDocId # Null => activeDocId' # Null]_vars

\* C18 witness: a later upload failed and document 7 is still the active one.
C18_Witness ==
    /\ UploadRequestFailed(lastEvent)
    /\ lastUpload # Null
    /\ activeDocId = Some(7)
    /\ documentTitle = "Notes"

\* C19: uploadMessage is set only while uploadSuccess is true, both are cleared
\* while isUploading is true, and the message box is never drawn in its yellow
\* styling.
C19_MessageOnlyWithSuccess ==
    /\ uploadMessage # Null => uploadSuccess
    /\ isUploading => (~uploadSuccess /\ uploadMessage = Null)
    /\ UploadMessageBox # "yellow"

\* C19 witness: the backend answered with processing_status warning and the
\* message is drawn green.
C19_Witness ==
    /\ uploadSuccess
    /\ lastUpload # Null
    /\ lastUpload[1].processing_status = "warning"
    /\ uploadMessage = Some(lastUpload[1].processing_message)
    /\ UploadMessageBox = "green"

====
